---- MODULE Spec2Model ----
(***************************************************************************)
(* W.I.T. voice processing core (firmware/core/voice/voice_core.c).        *)
(*                                                                         *)
(* The model follows the FreeRTOS structure of the source:                 *)
(*   - the producer calls voice_process_frame (xQueueSend, no wait);       *)
(*   - voice_processing_task is one task whose position is pc; it is       *)
(*     split where it touches fields that other threads write, because     *)
(*     the source takes no lock around state / recording_* accesses;       *)
(*   - the public API calls are caller-thread steps;                       *)
(*   - voice_timeout_callback runs on the timer service task, split into   *)
(*     its test of ctx->state and its write of ctx->state.                 *)
(*                                                                         *)
(* Audio samples are represented by what the pipeline derives from them:   *)
(* the per-channel energy in whole dB that calculate_energy_db returns.    *)
(* Times are uint32 milliseconds in the source; here the tick clock counts *)
(* frame periods (one voice_process_frame call per period, each frame      *)
(* stamped with the period it was captured in) and time differences wrap   *)
(* modulo UINT32_MODULUS.  A return value is the value the function        *)
(* computes from the context it is called on.  The recording buffer and    *)
(* the circular buffer hold, cell by cell, which byte or sample of which   *)
(* frame was copied there.                                                 *)
(***************************************************************************)
EXTENDS Integers, Sequences, FiniteSets, TLC

(***************************************************************************)
(* Bounds of the model.                                                    *)
(***************************************************************************)
\* number of voice_process_frame calls explored
MaxSubmit == 5
\* largest max_duration_ms passed to voice_start_recording
MaxDuration == 2
\* depth of frame_queue (xQueueCreate(10, ...) in the source, scaled)
QUEUE_LENGTH == 2
\* recording_capacity in bytes (VOICE_SAMPLE_RATE * 10 * 2 in the source, scaled)
RECORDING_CAPACITY == 5
\* period of the demo wake trigger (500 frames in the source, scaled)
SIMULATION_PERIOD == 3
\* modulus of the unsigned time arithmetic (2^32 in the source, scaled)
UINT32_MODULUS == 8

(***************************************************************************)
(* Constants of voice_core.h.                                              *)
(***************************************************************************)
VOICE_CHANNELS == 2
VOICE_FRAME_SIZE == 1
VOICE_BUFFER_SIZE == 2
VAD_FRAME_THRESHOLD == 3
VAD_ENERGY_THRESHOLD == 0 - 40
MAX_WAKE_WORDS == 2

\* sizeof(int16_t)
SIZEOF_INT16 == 2

\* shortest duration_ms voice_calibrate_noise accepts
MIN_CALIBRATION_MS == 100

\* largest angle_degrees voice_set_beam_direction accepts
MAX_ANGLE_DEGREES == 360

\* size_t frame_bytes = VOICE_FRAME_SIZE * sizeof(int16_t)
frame_bytes == VOICE_FRAME_SIZE * SIZEOF_INT16

\* ctx->wake_word_engine = NULL, never assigned again
wake_word_engine == "NULL"

\* per-channel energies (dB) of the frames the producer delivers:
\* background at the initial noise floor, speech 20 dB above it
QuietFrame == [ch \in 1..VOICE_CHANNELS |-> VAD_ENERGY_THRESHOLD]
LoudFrame == [ch \in 1..VOICE_CHANNELS |-> VAD_ENERGY_THRESHOLD + 20]
FrameEnergies == {QuietFrame, LoudFrame}

\* durations passed to voice_calibrate_noise
CalibrationDurations == {MIN_CALIBRATION_MS - 1, MIN_CALIBRATION_MS}

\* angles passed to voice_set_beam_direction
SteeringAngles == {0 - 1, 0, MAX_ANGLE_DEGREES, MAX_ANGLE_DEGREES + 1}

\* callbacks of the wake-word models passed to voice_register_wake_word
WakeWordCallbacks == {"NULL", "on_wake"}

\* callbacks passed to voice_register_audio_callback
AudioCallbacks == {"NULL", "on_audio"}

\* destination sizes passed to voice_get_recording
BufferSizes == {frame_bytes, RECORDING_CAPACITY}

\* the maximum recording duration asked for by the configuration (max_duration)
ConfiguredDuration == MaxDuration

\* byte k of the mono mixdown of the frame captured at ts: frames are told apart
\* by their capture time, which stands for their samples
mono_frame(ts) == [k \in 0..frame_bytes - 1 |-> <<ts, k>>]

\* sample j of the interleaved frame captured at ts
frame_samples(ts) == [j \in 0..VOICE_FRAME_SIZE * VOICE_CHANNELS - 1 |-> <<ts, j>>]

\* a buffer cell no frame was copied to
NoData == <<0, 0>>

\* the local `frame` of voice_processing_task while it waits on the queue
NoFrame == [timestamp_ms |-> 0, energy_db |-> QuietFrame, vad_active |-> FALSE]

VARIABLES
    state,                    \* ctx->state
    recording_size,           \* ctx->recording_size
    is_recording,             \* ctx->is_recording
    recording_start_time,     \* ctx->recording_start_time
    max_recording_duration,   \* ctx->max_recording_duration
    noise_floor,              \* ctx->noise_floor
    vad_frame_count,          \* ctx->vad_frame_count
    vad_active,               \* ctx->vad_active
    simulation_counter,       \* static int simulation_counter
    stats,                    \* ctx->stats
    wake_words,               \* ctx->config.wake_words[0..num_wake_words-1]
    frame_queue,              \* ctx->frame_queue
    buffer_write_idx,         \* ctx->buffer_write_idx
    timer_active,             \* ctx->timeout_timer is running
    pc,                       \* position of voice_processing_task
    frame,                    \* local frame of voice_processing_task
    size_read,                \* recording_size as read by the capacity test
    fell_through,             \* case WAKE_DETECTED fell through to RECORDING
    timer_pc,                 \* position of voice_timeout_callback
    nsubmit,                  \* history: voice_process_frame calls so far
    accepted,                 \* history: timestamps of the frames xQueueSend accepted
    processed,                \* history: timestamps of the frames xQueueReceive returned
    wake_callbacks,           \* history: wake-word callback invocations
    reset_seen,               \* history: voice_reset has been called
    recording_buffer,         \* ctx->recording_buffer[0 .. recording_capacity - 1]
    session_frames,           \* history: frames appended since recording_size was last 0
    circular_buffer,          \* ctx->circular_buffer
    audio_delivered,          \* history: timestamp of the last frame given to audio_callback
    audio_callback,           \* ctx->audio_callback
    current_steering_angle,   \* ctx->current_steering_angle
    wake_callback_index,      \* history: registry index of the last callback called (0: none)
    deinit_pc,                \* position of voice_deinit ("start": not called)
    timeout_timer,            \* ctx->timeout_timer: created, delete command queued, deleted
    buffer_mutex,             \* ctx->buffer_mutex: free, or held by another thread
    vad_decision,             \* energy_vad && channel_vad of detect_voice_activity
    count_read,               \* ctx->vad_frame_count as detect_voice_activity loaded it
    vad_run,                  \* history: frames in a row that met both conditions since reset
    get_pc,                   \* position of a voice_get_recording call taken load by load
    get_cap,                  \* its buffer_size argument
    get_size,                 \* ctx->recording_size as its comparison loaded it
    bytes_written,            \* *bytes_written as it stored it
    ring_frame_size,          \* VOICE_FRAME_SIZE of the build
    ring_buffer_size,         \* VOICE_BUFFER_SIZE of the build
    ring_write_idx            \* the write index under that build's sizes

ctxVars == <<state, recording_size, is_recording, recording_start_time, max_recording_duration>>
vadVars == <<noise_floor, vad_frame_count, vad_active, vad_run>>
vadLocals == <<vad_decision, count_read>>
cfgVars == <<wake_words, buffer_write_idx, audio_callback, current_steering_angle>>
recVars == <<recording_buffer, session_frames>>
outVars == <<circular_buffer, audio_delivered>>
wakeVars == <<wake_callbacks, wake_callback_index>>
procVars == <<pc, frame, size_read, fell_through, vad_decision, count_read>>
callVars == <<get_pc, get_cap, get_size, bytes_written>>
geomVars == <<ring_frame_size, ring_buffer_size, ring_write_idx>>
lifeVars == <<deinit_pc, timeout_timer, buffer_mutex, callVars, geomVars>>
timerVars == <<timer_active, timer_pc>>
queueVars == <<frame_queue, nsubmit, accepted, processed>>

vars == <<state, recording_size, is_recording, recording_start_time, max_recording_duration,
          noise_floor, vad_frame_count, vad_active, simulation_counter, stats, wake_words,
          frame_queue, buffer_write_idx, timer_active, pc, frame, size_read, fell_through,
          timer_pc, nsubmit, accepted, processed, wake_callbacks, reset_seen,
          recording_buffer, session_frames, circular_buffer, audio_delivered,
          audio_callback, current_steering_angle, wake_callback_index,
          deinit_pc, timeout_timer, buffer_mutex, vad_decision, count_read, vad_run,
          get_pc, get_cap, get_size, bytes_written,
          ring_frame_size, ring_buffer_size, ring_write_idx>>

\* memset(&ctx->stats, 0, sizeof(voice_stats_t))
ZeroStats == [frames_processed |-> 0, buffer_overruns |-> 0, vad_activations |-> 0,
              wake_detections |-> 0, noise_floor_db |-> 0]

\* the wake-word registry of the configuration: entry = its callback, or "NULL"
ConfigWakeWords == {<<"NULL", "on_wake">>}

\* xTaskGetTickCount() * portTICK_PERIOD_MS
now == nsubmit

(***************************************************************************)
(* voice_init                                                              *)
(***************************************************************************)
voice_init_build(registry, frame_size, buffer_size) ==
    /\ state = "IDLE"
    /\ recording_size = 0
    /\ is_recording = FALSE
    /\ recording_start_time = 0
    /\ max_recording_duration = 0
    /\ noise_floor = VAD_ENERGY_THRESHOLD
    /\ vad_frame_count = 0
    /\ vad_active = FALSE
    /\ simulation_counter = 0
    /\ stats = ZeroStats
    /\ wake_words = registry
    /\ frame_queue = <<>>
    /\ buffer_write_idx = 0
    /\ timer_active = FALSE
    /\ pc = "wait"
    /\ frame = NoFrame
    /\ size_read = 0
    /\ fell_through = FALSE
    /\ timer_pc = "idle"
    /\ nsubmit = 0
    /\ accepted = <<>>
    /\ processed = <<>>
    /\ wake_callbacks = 0
    /\ reset_seen = FALSE
    /\ recording_buffer = [i \in 0..RECORDING_CAPACITY - 1 |-> NoData]
    /\ session_frames = <<>>
    /\ circular_buffer = [i \in 0..VOICE_BUFFER_SIZE * VOICE_CHANNELS - 1 |-> NoData]
    /\ audio_delivered = 0
    /\ audio_callback = "NULL"
    /\ current_steering_angle = 0
    /\ wake_callback_index = 0
    /\ deinit_pc = "start"
    /\ timeout_timer = "created"
    /\ buffer_mutex = "free"
    /\ vad_decision = FALSE
    /\ count_read = 0
    /\ vad_run = 0
    /\ get_pc = "idle"
    /\ get_cap = 0
    /\ get_size = 0
    /\ bytes_written = 0
    /\ ring_frame_size = frame_size
    /\ ring_buffer_size = buffer_size
    /\ ring_write_idx = 0

\* the context after voice_init in the build with the sizes of the model
voice_init(registry) == voice_init_build(registry, VOICE_FRAME_SIZE, VOICE_BUFFER_SIZE)

\* the context after voice_init on a configuration with a wake-word registry
Init == \E registry \in ConfigWakeWords : voice_init(registry)

\* the context after voice_init on a configuration with no wake word yet
InitConfig == voice_init(<<>>)

(***************************************************************************)
(* voice_process_frame: the producer hands one frame to the queue.         *)
(***************************************************************************)
\* variant: the queue takes one frame more than its length
xQueueSend_pass_one_more(q) == Len(q) <= QUEUE_LENGTH

\* xQueueSend(ctx->frame_queue, frame, 0) == pdPASS
xQueueSend_pass(q) == Len(q) < QUEUE_LENGTH

\* the value voice_process_frame returns
voice_process_frame_result(q) ==
    IF xQueueSend_pass(q) THEN "VOICE_OK" ELSE "VOICE_ERR_BUFFER_OVERFLOW"

\* the frame of the period after `now`, as the driver delivers it
captured_frame(e) == [timestamp_ms |-> now + 1, energy_db |-> e, vad_active |-> FALSE]

voice_process_frame(e) ==
    /\ nsubmit < MaxSubmit
    /\ nsubmit' = nsubmit + 1
    /\ IF xQueueSend_pass(frame_queue)
       THEN /\ frame_queue' = Append(frame_queue, captured_frame(e))
            /\ accepted' = Append(accepted, captured_frame(e).timestamp_ms)
            /\ UNCHANGED stats
       ELSE /\ stats' = [stats EXCEPT !.buffer_overruns = @ + 1]
            /\ UNCHANGED <<frame_queue, accepted>>
    /\ UNCHANGED <<ctxVars, vadVars, simulation_counter, cfgVars, procVars, timerVars,
                   processed, wakeVars, reset_seen, lifeVars, recVars, outVars>>

(***************************************************************************)
(* Voice activity detection (detect_voice_activity, update_noise_floor).   *)
(***************************************************************************)
RECURSIVE total_energy(_, _)
total_energy(e, n) == IF n = 0 THEN 0 ELSE e[n] + total_energy(e, n - 1)

\* float avg_energy = total_energy / VOICE_CHANNELS
avg_energy(e) == total_energy(e, VOICE_CHANNELS) \div VOICE_CHANNELS

\* channels with energy > ctx->noise_floor + 6.0f
active_channels(e, nf) == Cardinality({ch \in 1..VOICE_CHANNELS : e[ch] > nf + 6})

\* ctx->noise_floor = alpha * ctx->noise_floor + (1 - alpha) * current_energy, alpha = 0.95
update_noise_floor(nf, current_energy) == (95 * nf + 5 * current_energy) \div 100

\* the noise floor after the "update during silence" test
noise_floor_after(e) ==
    IF ~vad_active THEN update_noise_floor(noise_floor, avg_energy(e)) ELSE noise_floor

\* bool energy_vad = avg_energy > ctx->noise_floor + 10.0f (the updated floor)
energy_vad(e) == avg_energy(e) > noise_floor_after(e) + 10

\* bool channel_vad = active_channels >= (VOICE_CHANNELS / 2) (the floor before the update)
channel_vad(e) == active_channels(e, noise_floor) >= (VOICE_CHANNELS \div 2)

\* if (energy_vad && channel_vad) ctx->vad_frame_count++; else ctx->vad_frame_count = 0:
\* the value stored, from the count loaded
vad_frame_count_after(decision, count) ==
    IF decision THEN (count + 1) % UINT32_MODULUS ELSE 0

\* ctx->vad_active = ctx->vad_frame_count >= VAD_FRAME_THRESHOLD
detect_voice_activity(count) == count >= VAD_FRAME_THRESHOLD

(***************************************************************************)
(* voice_processing_task, one action per position.                         *)
(***************************************************************************)
\* variant: the newest frame is returned instead of the oldest
xQueueReceive_newest(q) == q[Len(q)]

\* xQueueReceive(ctx->frame_queue, &frame, portMAX_DELAY): the frame returned
xQueueReceive(q) == Head(q)

\* the queue after xQueueReceive
xQueueReceive_rest(q) == Tail(q)

\* variant: the frame is received and not counted
task_receive_uncounted ==
    /\ pc = "wait"
    /\ frame_queue # <<>>
    /\ frame' = xQueueReceive(frame_queue)
    /\ frame_queue' = xQueueReceive_rest(frame_queue)
    /\ processed' = Append(processed, xQueueReceive(frame_queue).timestamp_ms)
    /\ pc' = "vad"
    /\ UNCHANGED <<ctxVars, vadVars, simulation_counter, stats, cfgVars, size_read,
                   fell_through, timerVars, nsubmit, accepted, wakeVars, reset_seen,
                   lifeVars, vadLocals, recVars, outVars>>

\* wait for a frame, count it (apply_beamforming leaves the uniform weights in place)
task_receive ==
    /\ pc = "wait"
    /\ frame_queue # <<>>
    /\ frame' = xQueueReceive(frame_queue)
    /\ frame_queue' = xQueueReceive_rest(frame_queue)
    /\ processed' = Append(processed, xQueueReceive(frame_queue).timestamp_ms)
    /\ stats' = [stats EXCEPT !.frames_processed = @ + 1]
    /\ pc' = "vad"
    /\ UNCHANGED <<ctxVars, vadVars, simulation_counter, cfgVars, size_read, fell_through,
                   timerVars, nsubmit, accepted, wakeVars, reset_seen, lifeVars, vadLocals,
                   recVars, outVars>>

\* detect_voice_activity up to the load of ctx->vad_frame_count: energies, noise
\* floor, the two conditions
task_vad ==
    /\ pc = "vad"
    /\ LET e == frame.energy_db
       IN  /\ noise_floor' = noise_floor_after(e)
           /\ stats' = [stats EXCEPT
                          !.noise_floor_db = IF ~vad_active THEN noise_floor_after(e) ELSE @]
           /\ vad_decision' = (energy_vad(e) /\ channel_vad(e))
           /\ count_read' = vad_frame_count
    /\ pc' = "vad_store"
    /\ UNCHANGED <<ctxVars, vad_frame_count, vad_active, vad_run, simulation_counter, cfgVars,
                   frame, size_read, fell_through, timerVars, queueVars, wakeVars, reset_seen,
                   lifeVars, recVars, outVars>>

\* the store of ctx->vad_frame_count and ctx->vad_active, frame.vad_active =
\* vad_result, stats.vad_activations.  No lock orders the load and the store
\* with voice_reset on a caller thread.
task_vad_store ==
    /\ pc = "vad_store"
    /\ LET count == vad_frame_count_after(vad_decision, count_read)
           vad_result == detect_voice_activity(count)
       IN  /\ vad_frame_count' = count
           /\ vad_active' = vad_result
           /\ frame' = [frame EXCEPT !.vad_active = vad_result]
           /\ stats' = [stats EXCEPT !.vad_activations = IF vad_result THEN @ + 1 ELSE @]
    /\ vad_run' = IF vad_decision THEN vad_run + 1 ELSE 0
    /\ vad_decision' = FALSE
    /\ count_read' = 0
    /\ pc' = "switch"
    /\ UNCHANGED <<ctxVars, noise_floor, simulation_counter, cfgVars, size_read, fell_through,
                   timerVars, queueVars, wakeVars, reset_seen, lifeVars, recVars, outVars>>

\* switch (ctx->state)
task_switch ==
    /\ pc = "switch"
    /\ pc' = CASE state \in {"IDLE", "LISTENING"} -> "wake"
               [] state = "WAKE_DETECTED" -> "wake_detected"
               [] state = "RECORDING" -> "recording"
               [] OTHER -> "callback"
    /\ UNCHANGED <<ctxVars, vadVars, simulation_counter, stats, cfgVars, frame, size_read,
                   fell_through, timerVars, queueVars, wakeVars, reset_seen, lifeVars, vadLocals,
                   recVars, outVars>>

\* the demo trigger: frame->vad_active && (simulation_counter % 500) == 0
wake_word_fires(f, counter) == f.vad_active /\ (counter % SIMULATION_PERIOD) = 0

\* the first registered callback is called, then break
callbacks_invoked(ww) == IF \E i \in 1..Len(ww) : ww[i] # "NULL" THEN 1 ELSE 0

\* index of the first registry entry with a callback, 0 when there is none
first_callback(ww) ==
    IF \E i \in 1..Len(ww) : ww[i] # "NULL"
    THEN CHOOSE i \in 1..Len(ww) : ww[i] # "NULL" /\ \A j \in 1..i - 1 : ww[j] = "NULL"
    ELSE 0

\* case IDLE / LISTENING: process_wake_word_detection
task_wake_word ==
    /\ pc = "wake"
    /\ simulation_counter' = simulation_counter + 1
    /\ IF wake_word_fires(frame, simulation_counter + 1)
       THEN /\ state' = "WAKE_DETECTED"
            /\ stats' = [stats EXCEPT !.wake_detections = @ + 1]
            /\ timer_active' = TRUE
            /\ wake_callbacks' = wake_callbacks + callbacks_invoked(wake_words)
            /\ wake_callback_index' = first_callback(wake_words)
       ELSE UNCHANGED <<state, stats, timer_active, wake_callbacks, wake_callback_index>>
    /\ pc' = "callback"
    /\ UNCHANGED <<recording_size, is_recording, recording_start_time, max_recording_duration,
                   vadVars, cfgVars, frame, size_read, fell_through, timer_pc, queueVars,
                   reset_seen, lifeVars, vadLocals, recVars, outVars>>

\* variant: the start is stamped from the tick clock, as voice_start_recording does
wake_start_time_tick(f) == now

\* ctx->recording_start_time = frame.timestamp_ms
wake_start_time(f) == f.timestamp_ms

\* case WAKE_DETECTED: start the recording, fall through to RECORDING
task_wake_detected ==
    /\ pc = "wake_detected"
    /\ state' = "RECORDING"
    /\ recording_start_time' = wake_start_time(frame)
    /\ recording_size' = 0
    /\ is_recording' = TRUE
    /\ session_frames' = <<>>
    /\ fell_through' = TRUE
    /\ pc' = "recording"
    /\ UNCHANGED <<max_recording_duration, vadVars, simulation_counter, stats, cfgVars, frame,
                   size_read, timerVars, queueVars, wakeVars, reset_seen, lifeVars, vadLocals,
                   recording_buffer, outVars>>

\* variant: the append without the capacity test
recording_fits_unchecked(size) == TRUE

\* ctx->recording_size + frame_bytes <= ctx->recording_capacity
recording_fits(size) == size + frame_bytes <= RECORDING_CAPACITY

\* variant: a frame that does not fit ends the session
task_recording_ends_session ==
    /\ pc = "recording"
    /\ IF frame.vad_active /\ is_recording /\ recording_fits(recording_size)
       THEN /\ pc' = "append"
            /\ size_read' = recording_size
            /\ UNCHANGED <<state, is_recording>>
       ELSE /\ pc' = "timeout"
            /\ state' = IF frame.vad_active /\ is_recording THEN "PROCESSING" ELSE state
            /\ is_recording' = (is_recording /\ ~frame.vad_active)
            /\ UNCHANGED size_read
    /\ UNCHANGED <<recording_size, recording_start_time, max_recording_duration, vadVars,
                   simulation_counter, stats, cfgVars, frame, fell_through, timerVars,
                   queueVars, wakeVars, reset_seen, lifeVars, vadLocals, recVars, outVars>>

\* case RECORDING: if (frame.vad_active && ctx->is_recording) and the frame fits
task_recording ==
    /\ pc = "recording"
    /\ IF frame.vad_active /\ is_recording /\ recording_fits(recording_size)
       THEN /\ pc' = "append"
            /\ size_read' = recording_size
       ELSE /\ pc' = "timeout"
            /\ UNCHANGED size_read
    /\ UNCHANGED <<ctxVars, vadVars, simulation_counter, stats, cfgVars, frame, fell_through,
                   timerVars, queueVars, wakeVars, reset_seen, lifeVars, vadLocals,
                   recVars, outVars>>

\* memcpy(dest + offset, src, frame_bytes)
memcpy(dest, offset, src) ==
    [i \in DOMAIN dest |->
        IF offset <= i /\ i < offset + frame_bytes THEN src[i - offset] ELSE dest[i]]

\* memcpy to the buffer, ctx->recording_size += frame_bytes.  No lock orders this
\* with the caller threads: the build may add to the size the test read or to
\* the size it reads again, and likewise for the offset of the copy.
task_append ==
    /\ pc = "append"
    /\ \E offset \in {size_read, recording_size} :
           recording_buffer' = memcpy(recording_buffer, offset, mono_frame(frame.timestamp_ms))
    /\ \E base \in {size_read, recording_size} : recording_size' = base + frame_bytes
    /\ session_frames' = Append(session_frames, frame.timestamp_ms)
    /\ size_read' = 0
    /\ pc' = "timeout"
    /\ UNCHANGED <<state, is_recording, recording_start_time, max_recording_duration, vadVars,
                   simulation_counter, stats, cfgVars, frame, fell_through, timerVars,
                   queueVars, wakeVars, reset_seen, lifeVars, vadLocals, outVars>>

\* uint32_t subtraction frame.timestamp_ms - ctx->recording_start_time
elapsed(ts, start) == (ts - start) % UINT32_MODULUS

\* frame.timestamp_ms - ctx->recording_start_time > ctx->max_recording_duration
recording_timed_out(ts, start, max) == elapsed(ts, start) > max

\* check recording timeout; voice_stop_recording(ctx) when it has passed
task_timeout ==
    /\ pc = "timeout"
    /\ IF recording_timed_out(frame.timestamp_ms, recording_start_time, max_recording_duration)
       THEN /\ is_recording' = FALSE
            /\ state' = "PROCESSING"
       ELSE UNCHANGED <<state, is_recording>>
    /\ pc' = "callback"
    /\ UNCHANGED <<recording_size, recording_start_time, max_recording_duration, vadVars,
                   simulation_counter, stats, cfgVars, frame, size_read, fell_through,
                   timerVars, queueVars, wakeVars, reset_seen, lifeVars, vadLocals,
                   recVars, outVars>>

\* variant: the index advances without the modulo
write_idx_after_unwrapped(idx, frame_size, buffer_size) == idx + frame_size * VOICE_CHANNELS

\* (idx + write_size) % (VOICE_BUFFER_SIZE * VOICE_CHANNELS), write_size =
\* VOICE_FRAME_SIZE * VOICE_CHANNELS, for the two sizes of a build
write_idx_after(idx, frame_size, buffer_size) ==
    (idx + frame_size * VOICE_CHANNELS) % (buffer_size * VOICE_CHANNELS)

\* ctx->buffer_write_idx after one frame
next_write_idx(idx) == write_idx_after(idx, VOICE_FRAME_SIZE, VOICE_BUFFER_SIZE)

\* if (ctx->audio_callback) ctx->audio_callback(frame.samples, ...)
task_callback ==
    /\ pc = "callback"
    /\ audio_delivered' = IF audio_callback # "NULL" THEN frame.timestamp_ms ELSE audio_delivered
    /\ pc' = "ring"
    /\ UNCHANGED <<ctxVars, vadVars, simulation_counter, stats, cfgVars, frame, size_read,
                   fell_through, timerVars, queueVars, wakeVars, reset_seen, lifeVars,
                   vadLocals, recVars,
                   circular_buffer>>

\* the cells of the circular buffer written from idx on
ring_write(ring, idx, src) ==
    [i \in DOMAIN ring |->
        IF idx <= i /\ i < idx + VOICE_FRAME_SIZE * VOICE_CHANNELS THEN src[i - idx] ELSE ring[i]]

\* variant: the take waits for the mutex without a bound (portMAX_DELAY)
task_circular_buffer_unbounded_wait ==
    /\ pc = "ring"
    /\ buffer_mutex = "free"
    /\ circular_buffer' = ring_write(circular_buffer, buffer_write_idx,
                                      frame_samples(frame.timestamp_ms))
    /\ buffer_write_idx' = next_write_idx(buffer_write_idx)
    /\ ring_write_idx' = write_idx_after(ring_write_idx, ring_frame_size, ring_buffer_size)
    /\ pc' = "wait"
    /\ frame' = NoFrame
    /\ fell_through' = FALSE
    /\ UNCHANGED <<ctxVars, vadVars, simulation_counter, stats, wake_words, audio_callback,
                   current_steering_angle, size_read, timerVars, queueVars, wakeVars,
                   reset_seen, deinit_pc, timeout_timer, buffer_mutex, callVars,
                   ring_frame_size, ring_buffer_size, vadLocals, recVars, audio_delivered>>

\* xSemaphoreTake(ctx->buffer_mutex, pdMS_TO_TICKS(10)) == pdPASS
xSemaphoreTake_pass(mutex) == mutex = "free"

\* update circular buffer under buffer_mutex; the if has no else: when the
\* take times out on a mutex another thread holds, the loop goes on
task_circular_buffer ==
    /\ pc = "ring"
    /\ IF xSemaphoreTake_pass(buffer_mutex)
       THEN /\ circular_buffer' = ring_write(circular_buffer, buffer_write_idx,
                                             frame_samples(frame.timestamp_ms))
            /\ buffer_write_idx' = next_write_idx(buffer_write_idx)
            /\ ring_write_idx' =
                   write_idx_after(ring_write_idx, ring_frame_size, ring_buffer_size)
       ELSE UNCHANGED <<circular_buffer, buffer_write_idx, ring_write_idx>>
    /\ pc' = "wait"
    /\ frame' = NoFrame
    /\ fell_through' = FALSE
    /\ UNCHANGED <<ctxVars, vadVars, simulation_counter, stats, wake_words, audio_callback,
                   current_steering_angle, size_read, timerVars, queueVars, wakeVars,
                   reset_seen, deinit_pc, timeout_timer, buffer_mutex, callVars,
                   ring_frame_size, ring_buffer_size, vadLocals, recVars, audio_delivered>>

voice_processing_task ==
    \/ task_receive
    \/ task_vad
    \/ task_vad_store
    \/ task_switch
    \/ task_wake_word
    \/ task_wake_detected
    \/ task_recording
    \/ task_append
    \/ task_timeout
    \/ task_callback
    \/ task_circular_buffer

(***************************************************************************)
(* voice_timeout_callback (timer service task).                            *)
(***************************************************************************)
\* the one-shot timer expires; if (ctx->state == VOICE_STATE_WAKE_DETECTED)
timeout_test ==
    /\ timer_active
    /\ timer_pc = "idle"
    /\ timer_active' = FALSE
    /\ timer_pc' = IF state = "WAKE_DETECTED" THEN "write" ELSE "idle"
    /\ UNCHANGED <<ctxVars, vadVars, simulation_counter, stats, cfgVars, procVars, queueVars,
                   wakeVars, reset_seen, lifeVars, recVars, outVars>>

\* ctx->state = VOICE_STATE_IDLE
timeout_write ==
    /\ timer_pc = "write"
    /\ state' = "IDLE"
    /\ timer_pc' = "idle"
    /\ UNCHANGED <<recording_size, is_recording, recording_start_time, max_recording_duration,
                   vadVars, simulation_counter, stats, cfgVars, timer_active, procVars,
                   queueVars, wakeVars, reset_seen, lifeVars, recVars, outVars>>

voice_timeout_callback == timeout_test \/ timeout_write

(***************************************************************************)
(* Public API, called from caller threads.                                 *)
(***************************************************************************)
\* variant: a context that is not recording reports ERROR
voice_get_state_error_when_idle(ctx_ok, s) == IF ctx_ok /\ s # "IDLE" THEN s ELSE "ERROR"

\* return ctx ? ctx->state : VOICE_STATE_ERROR
voice_get_state(ctx_ok, s) == IF ctx_ok THEN s ELSE "ERROR"

\* states in which voice_start_recording proceeds
start_allowed(s) == s \in {"WAKE_DETECTED", "IDLE"}

\* the value voice_start_recording returns
voice_start_recording_result(s) ==
    IF start_allowed(s) THEN "VOICE_OK" ELSE "VOICE_ERR_INVALID_PARAM"

voice_start_recording(max_duration_ms) ==
    /\ IF start_allowed(state)
       THEN /\ recording_size' = 0
            /\ is_recording' = TRUE
            /\ max_recording_duration' = max_duration_ms
            /\ recording_start_time' = now
            /\ state' = "RECORDING"
            /\ session_frames' = <<>>
       ELSE UNCHANGED <<ctxVars, session_frames>>
    /\ UNCHANGED <<vadVars, simulation_counter, stats, cfgVars, procVars, timerVars,
                   queueVars, wakeVars, reset_seen, lifeVars, recording_buffer, outVars>>

voice_stop_recording ==
    /\ is_recording' = FALSE
    /\ state' = "PROCESSING"
    /\ UNCHANGED <<recording_size, recording_start_time, max_recording_duration, vadVars,
                   simulation_counter, stats, cfgVars, procVars, timerVars, queueVars,
                   wakeVars, reset_seen, lifeVars, recVars, outVars>>

\* copy_size = (recording_size < buffer_size) ? recording_size : buffer_size
copy_size(size, buffer_size) == IF size < buffer_size THEN size ELSE buffer_size

\* if (ctx->recording_size == 0) { *bytes_written = 0; return VOICE_OK; }
nothing_recorded(size) == size = 0

\* the value voice_get_recording stores to *bytes_written
voice_get_recording_bytes_written(size, buffer_size) ==
    IF nothing_recorded(size) THEN 0 ELSE copy_size(size, buffer_size)

\* the bytes voice_get_recording copies to the destination, first to last
voice_get_recording_bytes(buf, size, buffer_size) ==
    [i \in 1..voice_get_recording_bytes_written(size, buffer_size) |-> buf[i - 1]]

\* buffer_ok: buffer and bytes_written are non-null
voice_get_recording(buffer_ok, buffer_size) ==
    /\ IF buffer_ok /\ ~nothing_recorded(recording_size)
       THEN /\ recording_size' = 0
            /\ state' = "IDLE"
            /\ session_frames' = <<>>
            /\ UNCHANGED <<is_recording, recording_start_time, max_recording_duration>>
       ELSE UNCHANGED <<ctxVars, session_frames>>
    /\ UNCHANGED <<vadVars, simulation_counter, stats, cfgVars, procVars, timerVars,
                   queueVars, wakeVars, reset_seen, lifeVars, recording_buffer, outVars>>

\* copy_size when the comparison and the selected operand are two loads of
\* ctx->recording_size
copy_size_loads(compared, selected, buffer_size) ==
    IF compared < buffer_size THEN selected ELSE buffer_size

\* voice_get_recording with non-null arguments, load by load: the test for an
\* empty recording and the comparison of recording_size with buffer_size
get_recording_compare(buffer_size) ==
    /\ get_pc = "idle"
    /\ get_cap' = buffer_size
    /\ IF nothing_recorded(recording_size)
       THEN /\ bytes_written' = 0
            /\ UNCHANGED <<get_pc, get_size>>
       ELSE /\ get_size' = recording_size
            /\ get_pc' = "copy"
            /\ UNCHANGED bytes_written
    /\ UNCHANGED <<ctxVars, vadVars, simulation_counter, stats, cfgVars, procVars, timerVars,
                   queueVars, wakeVars, reset_seen, recVars, outVars, deinit_pc, timeout_timer,
                   buffer_mutex, geomVars>>

\* the selected operand, the memcpy, *bytes_written, the clearing.  No lock
\* orders the loads with the processor's append: the build may select the size
\* the comparison loaded or the size it loads again.
get_recording_copy ==
    /\ get_pc = "copy"
    /\ \E selected \in {get_size, recording_size} :
           bytes_written' = copy_size_loads(get_size, selected, get_cap)
    /\ recording_size' = 0
    /\ state' = "IDLE"
    /\ session_frames' = <<>>
    /\ get_pc' = "idle"
    /\ get_size' = 0
    /\ UNCHANGED <<is_recording, recording_start_time, max_recording_duration, vadVars,
                   simulation_counter, stats, cfgVars, procVars, timerVars, queueVars,
                   wakeVars, reset_seen, recording_buffer, outVars, deinit_pc, timeout_timer,
                   buffer_mutex, get_cap, geomVars>>

\* variant: the memset alone
stats_after_reset_memset(nf) == ZeroStats

\* memset(&ctx->stats, 0, ...); ctx->stats.noise_floor_db = ctx->noise_floor
stats_after_reset(nf) == [ZeroStats EXCEPT !.noise_floor_db = nf]

\* variant: the reset leaves the VAD hysteresis as it is
voice_reset_keeps_vad ==
    /\ state' = "IDLE"
    /\ recording_size' = 0
    /\ is_recording' = FALSE
    /\ stats' = stats_after_reset(noise_floor)
    /\ reset_seen' = TRUE
    /\ session_frames' = <<>>
    /\ UNCHANGED <<recording_start_time, max_recording_duration, vadVars,
                   simulation_counter, cfgVars, procVars, timerVars, queueVars,
                   wakeVars, recording_buffer, outVars, lifeVars>>

voice_reset ==
    /\ state' = "IDLE"
    /\ recording_size' = 0
    /\ is_recording' = FALSE
    /\ vad_frame_count' = 0
    /\ vad_active' = FALSE
    /\ vad_run' = 0
    /\ stats' = stats_after_reset(noise_floor)
    /\ reset_seen' = TRUE
    /\ session_frames' = <<>>
    /\ UNCHANGED <<recording_start_time, max_recording_duration, noise_floor,
                   simulation_counter, cfgVars, procVars, timerVars, queueVars,
                   wakeVars, recording_buffer, outVars, lifeVars>>

\* the value voice_calibrate_noise returns
voice_calibrate_noise_result(duration_ms) ==
    IF duration_ms < MIN_CALIBRATION_MS THEN "VOICE_ERR_INVALID_PARAM" ELSE "VOICE_OK"

\* placeholder of the source: the floor goes back to its default
voice_calibrate_noise(duration_ms) ==
    /\ noise_floor' = IF voice_calibrate_noise_result(duration_ms) = "VOICE_OK"
                      THEN VAD_ENERGY_THRESHOLD ELSE noise_floor
    /\ UNCHANGED <<ctxVars, vad_frame_count, vad_active, vad_run, simulation_counter, stats,
                   cfgVars,
                   procVars, timerVars, queueVars, wakeVars, reset_seen, lifeVars, recVars,
                   outVars>>

\* the value voice_set_beam_direction returns
voice_set_beam_direction_result(angle_degrees) ==
    IF angle_degrees < 0 \/ angle_degrees > MAX_ANGLE_DEGREES
    THEN "VOICE_ERR_INVALID_PARAM" ELSE "VOICE_OK"

voice_set_beam_direction(angle_degrees) ==
    /\ current_steering_angle' = IF voice_set_beam_direction_result(angle_degrees) = "VOICE_OK"
                                 THEN angle_degrees ELSE current_steering_angle
    /\ UNCHANGED <<ctxVars, vadVars, simulation_counter, stats, wake_words, buffer_write_idx,
                   audio_callback, procVars, timerVars, queueVars, wakeVars, reset_seen, lifeVars,
                   recVars, outVars>>

\* variant: the registry is full only above MAX_WAKE_WORDS entries
voice_register_wake_word_result_above(ww) ==
    IF Len(ww) > MAX_WAKE_WORDS THEN "VOICE_ERR_INVALID_PARAM" ELSE "VOICE_OK"

\* the value voice_register_wake_word returns for a non-null model
voice_register_wake_word_result(ww) ==
    IF Len(ww) >= MAX_WAKE_WORDS THEN "VOICE_ERR_INVALID_PARAM" ELSE "VOICE_OK"

\* callback: the callback field of the model copied into the registry
voice_register_wake_word(callback) ==
    /\ wake_words' = IF voice_register_wake_word_result(wake_words) = "VOICE_OK"
                     THEN Append(wake_words, callback) ELSE wake_words
    /\ UNCHANGED <<ctxVars, vadVars, simulation_counter, stats, buffer_write_idx,
                   audio_callback, current_steering_angle, procVars, timerVars, queueVars,
                   wakeVars, reset_seen, lifeVars, recVars, outVars>>

voice_register_audio_callback(callback) ==
    /\ audio_callback' = callback
    /\ UNCHANGED <<ctxVars, vadVars, simulation_counter, stats, wake_words, buffer_write_idx,
                   current_steering_angle, procVars, timerVars, queueVars, wakeVars,
                   reset_seen, lifeVars, recVars, outVars>>

(***************************************************************************)
(* voice_deinit, one action per call it makes, and the timer service task  *)
(* taking the delete command from its queue.                               *)
(***************************************************************************)
allVars == <<ctxVars, vadVars, simulation_counter, stats, cfgVars, procVars, timerVars,
             queueVars, wakeVars, reset_seen, recVars, outVars, callVars, geomVars>>

\* vTaskDelete(ctx->processing_task)
deinit_task ==
    /\ deinit_pc = "start"
    /\ deinit_pc' = "timer"
    /\ UNCHANGED <<allVars, timeout_timer, buffer_mutex>>

\* xTimerDelete(ctx->timeout_timer, 0): the command is queued to the timer service
deinit_timer ==
    /\ deinit_pc = "timer"
    /\ timeout_timer' = "deleting"
    /\ deinit_pc' = "mutex"
    /\ UNCHANGED <<allVars, buffer_mutex>>

\* vSemaphoreDelete(ctx->buffer_mutex)
deinit_mutex ==
    /\ deinit_pc = "mutex"
    /\ deinit_pc' = "queue"
    /\ UNCHANGED <<allVars, timeout_timer, buffer_mutex>>

\* vQueueDelete(ctx->frame_queue)
deinit_queue ==
    /\ deinit_pc = "queue"
    /\ deinit_pc' = "free"
    /\ UNCHANGED <<allVars, timeout_timer, buffer_mutex>>

\* vPortFree of the buffers, then vPortFree(ctx)
deinit_free ==
    /\ deinit_pc = "free"
    /\ deinit_pc' = "done"
    /\ UNCHANGED <<allVars, timeout_timer, buffer_mutex>>

voice_deinit == deinit_task \/ deinit_timer \/ deinit_mutex \/ deinit_queue \/ deinit_free

\* the timer service task, between two callbacks, executes the delete command
timer_delete_command ==
    /\ timeout_timer = "deleting"
    /\ timer_pc = "idle"
    /\ timeout_timer' = "deleted"
    /\ timer_active' = FALSE
    /\ UNCHANGED <<ctxVars, vadVars, simulation_counter, stats, cfgVars, procVars, timer_pc,
                   queueVars, wakeVars, reset_seen, recVars, outVars, deinit_pc, buffer_mutex,
                   callVars, geomVars>>

\* the scheduler runs the processor task until vTaskDelete has removed it
processor_scheduled == deinit_pc = "start" /\ voice_processing_task

\* the timer service calls the callback of a timer it has not deleted
timer_service == timeout_timer # "deleted" /\ voice_timeout_callback

(***************************************************************************)
(* A reader of the circular buffer, which holds buffer_mutex for its copy. *)
(***************************************************************************)
reader_take ==
    /\ buffer_mutex = "free"
    /\ buffer_mutex' = "held"
    /\ UNCHANGED <<allVars, deinit_pc, timeout_timer>>

reader_give ==
    /\ buffer_mutex = "held"
    /\ buffer_mutex' = "free"
    /\ UNCHANGED <<allVars, deinit_pc, timeout_timer>>

buffer_reader == reader_take \/ reader_give

(***************************************************************************)
(* Specifications.  Spec: the session API against the pipeline, with the   *)
(* configuration voice_init was given.  SpecConfig: the configuration      *)
(* calls against the pipeline fed with speech, sessions being started by   *)
(* the wake word.  SpecCalibrate: voice_calibrate_noise against the        *)
(* pipeline.  SpecDeinit: voice_deinit against the pipeline.  SpecReader:  *)
(* the pipeline with a reader holding buffer_mutex.  SpecFair: the same    *)
(* with a fairly scheduled processor task.  SpecGetRecording:              *)
(* voice_get_recording load by load against the pipeline.  SpecBuild:      *)
(* SpecReader over several sizes of frame and circular buffer.             *)
(***************************************************************************)
Producer == \E e \in FrameEnergies : voice_process_frame(e)

StartRecording == \E d \in 1..MaxDuration : voice_start_recording(d)

GetRecording == \E ok \in BOOLEAN, n \in BufferSizes : voice_get_recording(ok, n)

Caller == StartRecording \/ voice_stop_recording \/ GetRecording \/ voice_reset

Next ==
    \/ Producer
    \/ voice_processing_task
    \/ voice_timeout_callback
    \/ Caller

Spec == Init /\ [][Next]_vars

\* the producer delivers speech only
Speech == voice_process_frame(LoudFrame)

CalibrateNoise == \E d \in CalibrationDurations : voice_calibrate_noise(d)

SetBeamDirection == \E a \in SteeringAngles : voice_set_beam_direction(a)

RegisterWakeWord == \E cb \in WakeWordCallbacks : voice_register_wake_word(cb)

RegisterAudioCallback == \E cb \in AudioCallbacks : voice_register_audio_callback(cb)

Configure == SetBeamDirection \/ RegisterWakeWord \/ RegisterAudioCallback

NextConfig ==
    \/ Speech
    \/ voice_processing_task
    \/ voice_timeout_callback
    \/ voice_reset
    \/ Configure

SpecConfig == InitConfig /\ [][NextConfig]_vars

NextCalibrate ==
    \/ Producer
    \/ voice_processing_task
    \/ voice_timeout_callback
    \/ voice_reset
    \/ CalibrateNoise

SpecCalibrate == Init /\ [][NextCalibrate]_vars

\* voice_deinit against the pipeline and the session calls.  The calls made
\* after vPortFree(ctx) dereference freed memory: they find the context as
\* voice_deinit left it, or fault and take no step.
NextDeinit ==
    \/ Speech
    \/ processor_scheduled
    \/ timer_service
    \/ timer_delete_command
    \/ StartRecording
    \/ voice_stop_recording
    \/ voice_deinit

SpecDeinit == Init /\ [][NextDeinit]_vars

\* the pipeline with a reader of the circular buffer contending for the mutex
NextReader ==
    \/ Producer
    \/ voice_processing_task
    \/ voice_timeout_callback
    \/ buffer_reader

SpecReader == Init /\ [][NextReader]_vars

\* the builds: VOICE_FRAME_SIZE and VOICE_BUFFER_SIZE as the model has them,
\* and one sample more of either
FrameSizes == {VOICE_FRAME_SIZE, VOICE_FRAME_SIZE + 1}
RingSizes == {VOICE_BUFFER_SIZE, VOICE_BUFFER_SIZE + 1}

\* the context after voice_init in any of the builds
InitBuild ==
    \E registry \in ConfigWakeWords, fs \in FrameSizes, bs \in RingSizes :
        voice_init_build(registry, fs, bs)

\* the pipeline and a reader of the circular buffer, over the builds
SpecBuild == InitBuild /\ [][NextReader]_vars

\* destination sizes between one frame and the capacity
CallerBufferSizes == {frame_bytes + 1, RECORDING_CAPACITY}

GetRecordingLoads ==
    \/ \E n \in CallerBufferSizes : get_recording_compare(n)
    \/ get_recording_copy

\* voice_get_recording, its loads of recording_size taken one by one, against
\* the pipeline fed with speech
NextGetRecording ==
    \/ Speech
    \/ voice_processing_task
    \/ voice_timeout_callback
    \/ StartRecording
    \/ GetRecordingLoads

SpecGetRecording == Init /\ [][NextGetRecording]_vars

\* the pipeline fed with speech, a caller ending sessions and a reader holding
\* the mutex for as long as it likes; the scheduler runs the processor task
\* whenever it stays ready
NextFair ==
    \/ Speech
    \/ voice_processing_task
    \/ voice_timeout_callback
    \/ voice_stop_recording
    \/ buffer_reader

SpecFair == Init /\ [][NextFair]_vars /\ WF_vars(voice_processing_task)

(***************************************************************************)
(* Properties.                                                             *)
(***************************************************************************)
\* the timestamps of the frames waiting in the queue, oldest first
queued_timestamps == [i \in 1..Len(frame_queue) |-> frame_queue[i].timestamp_ms]

\* submissions xQueueSend refused so far
rejected == nsubmit - Len(accepted)

\* C1: recording_size never exceeds recording_capacity.
C1_SizeWithinCapacity == recording_size <= RECORDING_CAPACITY

\* C1 case: in RECORDING a VAD-active frame was refused by the capacity test
C1_Witness ==
    /\ pc = "timeout"
    /\ state = "RECORDING"
    /\ frame.vad_active /\ is_recording
    /\ recording_size > 0
    /\ ~recording_fits(recording_size)

\* C2: recording_size > 0 implies the state is RECORDING or PROCESSING.
C2_SizeOnlyInSession == recording_size > 0 => state \in {"RECORDING", "PROCESSING"}

\* C3: every change of the session state is a step of the processor task.
C3_OnlyProcessorWritesState == [][state' # state => voice_processing_task]_vars

\* C4: called with non-null arguments in PROCESSING, voice_get_recording leaves
\* state = IDLE and recording_size = 0, whatever was recorded.
C4_GetRecordingLeavesProcessing ==
    state = "PROCESSING" =>
        \A n \in BufferSizes :
            ENABLED (voice_get_recording(TRUE, n) /\ state' = "IDLE" /\ recording_size' = 0)

\* C5: voice_start_recording succeeds and enters RECORDING exactly from IDLE and
\* WAKE_DETECTED; from any other state it returns INVALID_STATE and changes nothing.
C5_StartRecordingContract ==
    \A d \in 1..MaxDuration :
        IF state \in {"IDLE", "WAKE_DETECTED"}
        THEN /\ voice_start_recording_result(state) = "VOICE_OK"
             /\ ENABLED (voice_start_recording(d) /\ state' = "RECORDING")
        ELSE /\ voice_start_recording_result(state) = "VOICE_ERR_INVALID_STATE"
             /\ ENABLED (voice_start_recording(d) /\ UNCHANGED ctxVars)

\* C6: with no wake-word engine there is never a wake detection: the state is
\* never WAKE_DETECTED, wake_detections stays 0, no wake-word callback runs.
C6_NoEngineNoDetection ==
    wake_word_engine = "NULL" =>
        /\ state # "WAKE_DETECTED"
        /\ stats.wake_detections = 0
        /\ wake_callbacks = 0

\* C7: the frames received by the processor, followed by the frames still in
\* the queue, are exactly the accepted frames in submission order.
C7_FifoOrder == processed \o queued_timestamps = accepted

\* C7 case: frames were processed although a submission in between was refused
C7_Witness ==
    /\ Len(processed) >= 3
    /\ rejected > 0
    /\ \E i \in 1..Len(processed) - 1 : processed[i + 1] > processed[i] + 1

C8_FullQueueStep ==
    (Producer /\ Len(frame_queue) = QUEUE_LENGTH) =>
        /\ voice_process_frame_result(frame_queue) = "VOICE_ERR_BUFFER_OVERFLOW"
        /\ frame_queue' = frame_queue
        /\ stats'.buffer_overruns = stats.buffer_overruns + 1

\* buffer_overruns changes only by such a call (+1) or by voice_reset (to 0)
C8_OnlyRejectionsCount ==
    stats'.buffer_overruns # stats.buffer_overruns =>
        \/ /\ Producer
           /\ Len(frame_queue) = QUEUE_LENGTH
           /\ stats'.buffer_overruns = stats.buffer_overruns + 1
        \/ /\ voice_reset
           /\ stats'.buffer_overruns = 0

\* without a reset the counter is the number of refused submissions; with the
\* processor not yet run it is the number of submissions beyond the queue length
C8_CountSinceInit ==
    ~reset_seen =>
        /\ stats.buffer_overruns = rejected
        /\ processed = <<>> =>
               stats.buffer_overruns = IF nsubmit > QUEUE_LENGTH THEN nsubmit - QUEUE_LENGTH ELSE 0

\* voice_process_frame is never blocked by the queue
C8_NeverBlocks == nsubmit < MaxSubmit => ENABLED Producer

C9_WakeTimeoutCancels ==
    [][(timeout_write /\ state = "WAKE_DETECTED") =>
           (state' = "IDLE" /\ recording_size' = 0 /\ ~is_recording')]_vars

\* C10: the processor leaving case WAKE_DETECTED has set state = RECORDING,
\* recording_size = 0, is_recording and recording_start_time = the frame's
\* timestamp, and has not appended the frame yet.
C10_WakeDetectedStartsRecording ==
    [][(pc = "wake_detected" /\ pc' # pc) =>
           /\ state' = "RECORDING"
           /\ recording_size' = 0
           /\ is_recording'
           /\ recording_start_time' = frame.timestamp_ms
           /\ pc' = "recording"
           /\ frame' = frame]_vars

\* C10 case: a wake-triggered recording just started on a frame older than the clock
C10_Witness ==
    /\ pc = "recording"
    /\ fell_through
    /\ state = "RECORDING"
    /\ recording_size = 0
    /\ recording_start_time = frame.timestamp_ms
    /\ frame.timestamp_ms < now

\* C11: when the processor handles a frame in RECORDING whose timestamp minus
\* recording_start_time is at least max_recording_duration (equality included),
\* the state is PROCESSING and is_recording is false after the timeout check.
C11_TimeoutAtEquality ==
    [][(/\ task_timeout
        /\ state = "RECORDING"
        /\ elapsed(frame.timestamp_ms, recording_start_time) >= max_recording_duration)
           => (state' = "PROCESSING" /\ ~is_recording')]_vars

\* no voice_start_recording has succeeded since voice_init: a RECORDING session
\* can only have been started by the wake word
no_duration_given == max_recording_duration = 0

\* C12: in a wake-triggered session (no voice_start_recording call) the timeout
\* check leaves the state RECORDING on every frame whose timestamp is less than
\* the recording start plus the configured maximum recording duration.
C12_WakeSessionRunsConfiguredDuration ==
    [][(/\ task_timeout
        /\ state = "RECORDING"
        /\ no_duration_given
        /\ elapsed(frame.timestamp_ms, recording_start_time) < ConfiguredDuration)
           => state' = "RECORDING"]_vars

\* the mono mixdowns of the frames captured at the times tss, one after the other
RECURSIVE mixdowns(_)
mixdowns(tss) ==
    IF tss = <<>> THEN <<>>
    ELSE [k \in 1..frame_bytes |-> mono_frame(Head(tss))[k - 1]] \o mixdowns(Tail(tss))

\* C13: in a session in which N VAD-active frames were appended, N * frame_bytes
\* within the capacity, voice_get_recording with a destination of at least that
\* size reports N * frame_bytes bytes, the mono mixdowns of the N frames in
\* processing order.
C13_RoundTrip ==
    (/\ state = "RECORDING"
     /\ is_recording
     /\ Len(session_frames) * frame_bytes <= RECORDING_CAPACITY) =>
        \A n \in BufferSizes :
            n >= Len(session_frames) * frame_bytes =>
                /\ voice_get_recording_bytes_written(recording_size, n)
                       = Len(session_frames) * frame_bytes
                /\ voice_get_recording_bytes(recording_buffer, recording_size, n)
                       = mixdowns(session_frames)

\* what voice_reset writes, as it leaves it
after_reset ==
    /\ state = "IDLE"
    /\ recording_size = 0
    /\ ~is_recording
    /\ vad_frame_count = 0
    /\ ~vad_active
    /\ stats = stats_after_reset(noise_floor)
    /\ session_frames = <<>>
    /\ reset_seen

\* C14: voice_reset called in any reachable state leaves state = IDLE,
\* recording_size = 0, is_recording = false, vad_frame_count = 0 and vad_active =
\* false, and a second voice_reset right after it changes nothing.
C14_ResetIdempotent ==
    /\ [][voice_reset => after_reset']_vars
    /\ [](after_reset => ENABLED (voice_reset /\ UNCHANGED vars))

\* C14 case: voice_reset has run while the processor was about to append a frame
\* of a session, after frames had been counted
C14_Witness ==
    /\ after_reset
    /\ pc = "append"
    /\ stats.frames_processed = 0
    /\ Len(processed) > 1

\* C15: voice_reset sets frames_processed, buffer_overruns, vad_activations and
\* wake_detections to 0, leaves stats.noise_floor_db equal to the noise floor,
\* and leaves the noise floor, the frame queue, the circular buffer and its write
\* index, the wake-word registry, the steering angle and the audio callback
\* unchanged.
C15_ResetFrame ==
    [][voice_reset =>
           /\ stats'.frames_processed = 0
           /\ stats'.buffer_overruns = 0
           /\ stats'.vad_activations = 0
           /\ stats'.wake_detections = 0
           /\ stats'.noise_floor_db = noise_floor'
           /\ UNCHANGED <<noise_floor, frame_queue, circular_buffer, buffer_write_idx,
                          wake_words, current_steering_angle, audio_callback>>]_vars

\* C15 case: voice_reset has cleared counters that had counted (no frame received
\* since), with a moved noise floor, a queued frame, a written circular buffer, a
\* registered wake word and audio callback and a steered beam
C15_Witness ==
    /\ reset_seen
    /\ stats.frames_processed = 0 /\ Len(processed) > 0
    /\ stats.buffer_overruns = 0 /\ rejected > 0
    /\ stats.wake_detections = 0 /\ wake_callback_index > 0
    /\ stats.vad_activations = 0
    /\ stats.noise_floor_db = noise_floor
    /\ noise_floor # VAD_ENERGY_THRESHOLD
    /\ frame_queue # <<>>
    /\ circular_buffer[0] # NoData
    /\ buffer_write_idx # 0
    /\ wake_words # <<>>
    /\ current_steering_angle # 0
    /\ audio_callback # "NULL"

\* C16: no step taken while vad_active is true changes the noise floor, be it
\* frame processing or a public operation such as voice_calibrate_noise.
C16_NoiseFloorFrozenWhileActive == [][vad_active => noise_floor' = noise_floor]_vars

\* C17: vad_activations goes up by one on a frame whose VAD result is true while
\* the previous result was false, and does not change on any other frame.
C17_ActivationsCountRisingEdges ==
    [][task_vad_store =>
           stats'.vad_activations =
               stats.vad_activations + (IF vad_active' /\ ~vad_active THEN 1 ELSE 0)]_vars

\* a step in which a wake word is detected
wake_detection == task_wake_word /\ state' = "WAKE_DETECTED"

\* C18: each wake detection calls exactly one wake-word callback, the first one
\* in registration order, and without a reset wake_detections equals the number
\* of wake-word callbacks called, whatever the registry holds.
C18_OneCallbackPerDetection ==
    /\ [][wake_detection =>
              /\ wake_callbacks' = wake_callbacks + 1
              /\ wake_callback_index' \in 1..Len(wake_words)
              /\ wake_words[wake_callback_index'] # "NULL"
              /\ \A j \in 1..wake_callback_index' - 1 : wake_words[j] = "NULL"]_vars
    /\ [](~reset_seen => stats.wake_detections = wake_callbacks)

\* every sample of the frame captured at ts is in the circular buffer
in_circular_buffer(ts) ==
    \A j \in DOMAIN frame_samples(ts) :
        \E i \in DOMAIN circular_buffer : circular_buffer[i] = frame_samples(ts)[j]

\* C19: the steps of a frame run in the order beamforming, VAD, state
\* transition, recording append, circular-buffer write, audio callback: when the
\* audio callback is called for a frame, the frame is in the circular buffer.
C19_CallbackAfterBufferWrite ==
    [][(task_callback /\ audio_callback # "NULL") => in_circular_buffer(frame.timestamp_ms)]_vars

\* a voice_get_recording call that copies from the recording buffer
get_recording_copies ==
    /\ ~nothing_recorded(recording_size)
    /\ \E n \in BufferSizes : voice_get_recording(TRUE, n)

\* C20: voice_get_recording copies from the recording buffer (and resets
\* recording_size) only in PROCESSING and never while an append is under way, and
\* the processor appends only in RECORDING.
C20_RecordingBufferExclusive ==
    [][/\ get_recording_copies => (state = "PROCESSING" /\ pc # "append")
       /\ task_append => state = "RECORDING"]_vars

\* C21: the stats record has a single writer: every step that changes a
\* field of stats is a step of the processor task.
C21_StatsSingleWriter == [][stats' # stats => voice_processing_task]_vars

\* C22: voice_deinit stops the processor, then releases the timer, the mutex,
\* the queue and the buffers; the processor takes no step once it is stopped,
\* and neither the processor nor voice_timeout_callback takes a step on a
\* resource voice_deinit has released (the callback reads and writes ctx).
C22_NoAccessAfterRelease ==
    [][/\ voice_processing_task => deinit_pc = "start"
       /\ voice_timeout_callback => deinit_pc # "done"]_vars

\* C23: once voice_deinit has returned, a public operation returns
\* INVALID_STATE and changes nothing (only the clock of the calls advances).
C23_FailsAfterDeinit ==
    /\ [](deinit_pc = "done" =>
            /\ voice_process_frame_result(frame_queue) = "VOICE_ERR_INVALID_STATE"
            /\ voice_start_recording_result(state) = "VOICE_ERR_INVALID_STATE")
    /\ [][deinit_pc = "done" /\ (Speech \/ StartRecording \/ voice_stop_recording) =>
            UNCHANGED <<ctxVars, stats, frame_queue, accepted, recVars>>]_vars

\* C24: voice_set_beam_direction stores an angle only when 0 <= angle < 360,
\* so the stored steering angle is in [0, 360) in every reachable state.
C24_AngleBelowFullTurn ==
    0 <= current_steering_angle /\ current_steering_angle < MAX_ANGLE_DEGREES

\* C25: the registry never holds more than MAX_WAKE_WORDS entries; a change of
\* the registry is an append at its end, made while it holds fewer than
\* MAX_WAKE_WORDS; on a full registry voice_register_wake_word returns
\* INVALID_PARAM and no step changes the registry.
C25_RegistryBounded ==
    /\ [](Len(wake_words) <= MAX_WAKE_WORDS)
    /\ [](Len(wake_words) = MAX_WAKE_WORDS <=>
            voice_register_wake_word_result(wake_words) = "VOICE_ERR_INVALID_PARAM")
    /\ [][wake_words' # wake_words =>
            /\ Len(wake_words) < MAX_WAKE_WORDS
            /\ \E cb \in WakeWordCallbacks : wake_words' = Append(wake_words, cb)]_vars

\* a full registry, filled by two registrations whose order shows
C25_Witness == wake_words = <<"on_wake", "NULL">>

\* C26: when the take of buffer_mutex times out, the circular buffer and the
\* write index are left as they are, buffer_overruns counts the skipped write,
\* and the processor goes on to wait for the next queued frame.
C26_LockTimeoutCounted ==
    [][task_circular_buffer /\ ~xSemaphoreTake_pass(buffer_mutex) =>
          /\ UNCHANGED <<circular_buffer, buffer_write_idx>>
          /\ stats'.buffer_overruns = stats.buffer_overruns + 1
          /\ pc' = "wait"]_vars

\* C27: when the processor handles a frame in IDLE and no wake word is
\* detected on it, the state becomes LISTENING.
C27_IdleFrameListens ==
    [][/\ task_wake_word
       /\ state = "IDLE"
       /\ ~wake_word_fires(frame, simulation_counter + 1)
       => state' = "LISTENING"]_vars

\* the frame in hand is VAD-active, the session records, and the frame's bytes
\* would take recording_size past the capacity
frame_overflows == frame.vad_active /\ is_recording /\ ~recording_fits(recording_size)

\* C28: in RECORDING the processor drops a VAD-active frame that does not fit:
\* recording_size, the recording buffer, the state and is_recording are left as
\* they are and the processor goes on to the timeout test; no state of the
\* program is ERROR; and while the state stays RECORDING a full buffer stays
\* full, so every later frame of the session is dropped as well.
C28_OverflowFrameDropped ==
    /\ [][task_recording /\ state = "RECORDING" /\ frame_overflows =>
            /\ pc' = "timeout"
            /\ UNCHANGED <<recording_size, recording_buffer, state, is_recording>>]_vars
    /\ [](state # "ERROR")
    /\ [][/\ state = "RECORDING" /\ state' = "RECORDING"
           /\ ~recording_fits(recording_size)
           => recording_size' = recording_size]_vars

\* the processor has just dropped a frame of a session whose buffer is full
C28_Witness ==
    /\ pc = "timeout"
    /\ state = "RECORDING"
    /\ frame_overflows
    /\ recording_size = Len(session_frames) * frame_bytes
    /\ \A i \in 1..Len(session_frames) : session_frames[i] # frame.timestamp_ms

\* the frame stamped t is in the sequence of timestamps
stamped(seq, t) == \E i \in 1..Len(seq) : seq[i] = t

\* C29: with the processor task fairly scheduled, every frame xQueueSend
\* accepted is eventually returned by xQueueReceive, and the step that
\* dequeues it counts it in frames_processed, whatever the session state and
\* however long the reader holds buffer_mutex; a processor that is not waiting
\* on an empty queue always has a step to take.
C29_AcceptedEventuallyProcessed ==
    /\ \A t \in 1..MaxSubmit : stamped(accepted, t) ~> stamped(processed, t)
    /\ [][processed' # processed =>
            stats'.frames_processed = stats.frames_processed + 1]_vars
    /\ [](pc # "wait" \/ frame_queue # <<>> => ENABLED voice_processing_task)

\* a frame was dequeued and counted in PROCESSING while the reader held the mutex
C29_Witness ==
    /\ pc = "vad"
    /\ state = "PROCESSING"
    /\ buffer_mutex = "held"
    /\ stamped(processed, frame.timestamp_ms)
    /\ stats.frames_processed = Len(processed)

\* C30: vad_frame_count is the length of the current run of frames, processed
\* since the last voice_reset, that met both the energy and the channel-count
\* condition (0 after a frame that fails either), and vad_active is true iff
\* that run is at least VAD_FRAME_THRESHOLD long.
C30_CountIsRunLength ==
    /\ vad_frame_count = vad_run
    /\ vad_active = (vad_run >= VAD_FRAME_THRESHOLD)

\* C31: voice_timeout_callback changes nothing but the state, and the state
\* only from WAKE_DETECTED to IDLE: its write never takes a session that has
\* entered RECORDING or PROCESSING back to IDLE.
C31_TimeoutOnlyCancelsWake ==
    [][voice_timeout_callback =>
          /\ UNCHANGED <<recording_size, is_recording, recording_start_time,
                         max_recording_duration, vadVars, simulation_counter, stats, cfgVars,
                         procVars, queueVars, wakeVars, reset_seen, recVars, outVars>>
          /\ state' # state => state = "WAKE_DETECTED" /\ state' = "IDLE"]_vars

\* the states in which the processor listens for the wake word
listening(s) == s \in {"IDLE", "LISTENING"}

\* C32: a wake detection is made only in state IDLE or LISTENING and only on
\* a VAD-active frame; vad_activations goes up only on a VAD-active frame; and
\* the state leaves {IDLE, LISTENING} only by such a detection or by a
\* voice_start_recording or voice_stop_recording call (the processor's call of
\* voice_stop_recording at the recording timeout included).
C32_WakeOnlyWhenListening ==
    /\ [][wake_detection => listening(state) /\ frame.vad_active]_vars
    /\ [][stats'.vad_activations > stats.vad_activations => frame'.vad_active]_vars
    /\ [][listening(state) /\ ~listening(state') =>
            \/ wake_detection /\ frame.vad_active
            \/ StartRecording
            \/ voice_stop_recording
            \/ task_timeout]_vars

\* C33: voice_get_recording with non-null arguments stores to *bytes_written
\* the smaller of recording_size and buffer_size, never more than buffer_size,
\* and leaves recording_size = 0, so that what lay beyond buffer_size is gone.
C33_CopyWithinDestination ==
    [][get_recording_copy =>
          /\ bytes_written' <= get_cap
          /\ bytes_written' \in {copy_size(get_size, get_cap),
                                  copy_size(recording_size, get_cap)}
          /\ recording_size' = 0]_vars

\* the frame stride and the capacity of the circular buffer, in samples
ring_stride == ring_frame_size * VOICE_CHANNELS
ring_capacity == ring_buffer_size * VOICE_CHANNELS

\* the write index changes only in the processor's step under buffer_mutex,
\* by one stride modulo the capacity, and is below the capacity
ring_single_writer ==
    /\ [][ring_write_idx' # ring_write_idx \/ buffer_write_idx' # buffer_write_idx =>
            task_circular_buffer /\ xSemaphoreTake_pass(buffer_mutex)]_vars
    /\ [][task_circular_buffer /\ xSemaphoreTake_pass(buffer_mutex) =>
            ring_write_idx' = (ring_write_idx + ring_stride) % ring_capacity]_vars
    /\ [](ring_write_idx < ring_capacity)

\* C34 as stated: the write index is modified only by the processor under the
\* mutex, is always a multiple of the frame stride and below the capacity, and
\* advances by one stride modulo the capacity per written frame; with a
\* capacity that is a whole multiple of the stride no write passes the end.
C34_IndexMultipleOfStride ==
    /\ ring_single_writer
    /\ [](ring_write_idx % ring_stride = 0)
    /\ [](ring_capacity % ring_stride = 0 => ring_write_idx + ring_stride <= ring_capacity)

\* C34 amended: the index is a multiple of the stride, and no write passes the
\* end of the ring, when the capacity is a whole multiple of the stride; the
\* rest holds for every capacity.
C34_IndexMultipleWhenDivisible ==
    /\ ring_single_writer
    /\ [](ring_capacity % ring_stride = 0 =>
            /\ ring_write_idx % ring_stride = 0
            /\ ring_write_idx + ring_stride <= ring_capacity)

\* the ring of the model's build has been written all around, the index is back
\* at 0, and one more frame was processed whose write was skipped or is to come
C34_Witness ==
    /\ ring_frame_size = VOICE_FRAME_SIZE /\ ring_buffer_size = VOICE_BUFFER_SIZE
    /\ ring_stride < ring_capacity
    /\ \A i \in DOMAIN circular_buffer : circular_buffer[i] # NoData
    /\ ring_write_idx = 0 /\ buffer_write_idx = 0

\* C35: in a run without voice_reset, whenever the processor waits on the
\* queue (no frame is being processed; a voice_process_frame call is one
\* step), the number of voice_process_frame calls equals frames_processed +
\* buffer_overruns + the number of frames in the queue.
C35_FramesAccountedFor ==
    ~reset_seen /\ pc = "wait" =>
        nsubmit = stats.frames_processed + stats.buffer_overruns + Len(frame_queue)

\* frames have been processed, refused and are queued, with no reset so far
C35_Witness ==
    /\ ~reset_seen /\ pc = "wait"
    /\ stats.frames_processed > 1
    /\ stats.buffer_overruns > 0
    /\ frame_queue # <<>>

\* C36: is_recording is true exactly when the state is RECORDING.
C36_RecordingFlagMatchesState == is_recording <=> state = "RECORDING"

\* C37: the state of a context is never ERROR, and voice_get_state returns
\* ERROR exactly when it is called with a null context.
C37_NeverError ==
    /\ state \in {"IDLE", "LISTENING", "WAKE_DETECTED", "RECORDING", "PROCESSING"}
    /\ \A ctx_ok \in BOOLEAN : voice_get_state(ctx_ok, state) = "ERROR" <=> ~ctx_ok

\* the processor handles a frame in PROCESSING, after a wake detection, a
\* reset and a refused frame
C37_Witness ==
    /\ state = "PROCESSING"
    /\ pc = "callback"
    /\ wake_callback_index > 0
    /\ reset_seen
    /\ rejected > 0

\* C38: the timeout test subtracts in unsigned 32-bit arithmetic, and a frame
\* handled in RECORDING whose timestamp_ms is smaller than recording_start_time
\* leaves the state RECORDING for every max_recording_duration below the
\* largest 32-bit value.
C38_StaleFrameKeepsRecording ==
    [][(/\ task_timeout
        /\ state = "RECORDING"
        /\ frame.timestamp_ms < recording_start_time
        /\ max_recording_duration < UINT32_MODULUS - 1)
           => state' = "RECORDING"]_vars
====
